---- MODULE Spec2Model ----
(***************************************************************************)
(* Model of src/expression_parser.js: the Lexer (a pull tokenizer over a   *)
(* character cursor) and the Pratt Parser built on it.  Strings are        *)
(* sequences of one-character strings; the JavaScript value `undefined`    *)
(* read past the end of the input is the value Undef.                      *)
(***************************************************************************)
EXTENDS Integers, Sequences, FiniteSets, TLC

VARIABLES input, lexer, out, token, next_token, stack, pc, result, error, round, first

vars == <<input, lexer, out, token, next_token, stack, pc, result, error, round, first>>

\* ---------------------------------------------------------------- bounds

\* longest input of the exhaustive lexer runs
MaxLexLen == 3
\* calls of nextToken() made beyond one per input character
MaxEnds == 2
\* longest input of the exhaustive parser runs
MaxLen == 5

\* ------------------------------------------------------------ characters

Undef == "undefined"

Digits == {"0", "1", "2", "3", "4", "5", "6", "7", "8", "9"}

OpChars == {"+", "-", "%", "/", "*"}

ParenChars == {"(", ")"}

\* what Lexer.isWhitespace skips
Whitespace == {" ", "\n", "\t"}

\* white space that JavaScript's string-to-number conversion strips
JsWhiteSpace == {" ", "\n", "\t", "\r"}

\* input[i] of JavaScript, 0-based: undefined outside the string
CharAt(inp, i) == IF i >= 0 /\ i < Len(inp) THEN inp[i + 1] ELSE Undef

\* String.prototype.substring(a, b): both ends clamped to [0, length]
Substring(inp, a, b) ==
    LET lo == IF a > Len(inp) THEN Len(inp) ELSE a
        hi == IF b > Len(inp) THEN Len(inp) ELSE b
    IN  IF lo >= hi THEN <<>> ELSE SubSeq(inp, lo + 1, hi)

\* ----------------------------------------------------------------- Token

Token(type, literal) == [type |-> type, literal |-> literal]

\* the value of Parser._token / _next_token before the first next()
NoToken == [type |-> Undef, literal |-> <<>>]

\* ----------------------------------------------------------------- Lexer

isWhitespace(ch) == ch \in Whitespace

isNumberComponent(ch) == ch = "." \/ ch \in Digits

\* Lexer.next(): move the cursor one character on
LexerNext(inp, lx) ==
    [pos |-> lx.next_pos, next_pos |-> lx.next_pos + 1, c |-> CharAt(inp, lx.next_pos)]

peek(inp, lx) == CharAt(inp, lx.next_pos)

\* new Lexer(input): the field initialisers, then one next()
NewLexer(inp) == LexerNext(inp, [pos |-> 0, next_pos |-> 0, c |-> Undef])

RECURSIVE eatWhitespace(_, _)
eatWhitespace(inp, lx) ==
    IF isWhitespace(lx.c) THEN eatWhitespace(inp, LexerNext(inp, lx)) ELSE lx

RECURSIVE readNumberLoop(_, _)
readNumberLoop(inp, lx) ==
    IF isNumberComponent(peek(inp, lx)) THEN readNumberLoop(inp, LexerNext(inp, lx)) ELSE lx

\* Lexer.readNumber(): the text from the cursor through the following run
readNumber(inp, lx) ==
    LET lx2 == readNumberLoop(inp, lx)
    IN  [isString |-> TRUE, literal |-> Substring(inp, lx.pos, lx2.pos + 1), lx |-> lx2]

\* Lexer.readChar(): undefined once _next_pos has passed the input's length
readChar(inp, lx) ==
    IF lx.next_pos <= Len(inp)
    THEN LET lx1 == eatWhitespace(inp, lx)
         IN  IF lx1.c \in OpChars \cup ParenChars
             THEN [isString |-> TRUE, literal |-> <<lx1.c>>, lx |-> lx1]
             ELSE readNumber(inp, lx1)
    ELSE [isString |-> FALSE, literal |-> <<>>, lx |-> lx]

RECURSIVE TrimLeft(_)
TrimLeft(s) == IF s # <<>> /\ Head(s) \in JsWhiteSpace THEN TrimLeft(Tail(s)) ELSE s

RECURSIVE TrimRight(_)
TrimRight(s) ==
    IF s # <<>> /\ s[Len(s)] \in JsWhiteSpace THEN TrimRight(SubSeq(s, 1, Len(s) - 1)) ELSE s

\* isNaN(+literal): the string-to-number conversion strips white space, reads
\* the empty string as 0 and otherwise wants digits with at most one "."
\* (a literal of the lexer starts with no sign and holds no letter but,
\* possibly, its first character)
IsNaNLiteral(literal) ==
    LET s == TrimRight(TrimLeft(literal))
        dots == {i \in 1..Len(s) : s[i] = "."}
        digs == {i \in 1..Len(s) : s[i] \in Digits}
    IN  /\ s # <<>>
        /\ \/ \E i \in 1..Len(s) : ~isNumberComponent(s[i])
           \/ Cardinality(dots) > 1
           \/ digs = {}

OperatorType(ch) ==
    CASE ch = "+" -> "PLUS"
      [] ch = "-" -> "MINUS"
      [] ch = "%" -> "MODULO"
      [] ch = "/" -> "DIVIDE"
      [] ch = "*" -> "MULTIPLY"
      [] ch = "(" -> "LPAREN"
      [] ch = ")" -> "RPAREN"

\* Lexer.nextToken(): the token returned, or thrown = TRUE, and the lexer after
nextToken(inp, lx) ==
    LET r == readChar(inp, lx)
        lx2 == LexerNext(inp, r.lx)
    IN  IF r.isString
        THEN IF Len(r.literal) = 1 /\ r.literal[1] \in OpChars \cup ParenChars
             THEN [thrown |-> FALSE, tok |-> Token(OperatorType(r.literal[1]), r.literal), lx |-> lx2]
             ELSE IF IsNaNLiteral(r.literal)
                  THEN [thrown |-> TRUE, tok |-> Token("THROW", r.literal), lx |-> lx2]
                  ELSE [thrown |-> FALSE, tok |-> Token("NUMBER", r.literal), lx |-> lx2]
        ELSE [thrown |-> FALSE, tok |-> Token("EOF", <<>>), lx |-> lx2]

\* ------------------------------------------------------- inputs, lexer runs

RECURSIVE SeqsUpTo(_, _)
SeqsUpTo(S, n) ==
    IF n = 0 THEN {<<>>}
    ELSE LET shorter == SeqsUpTo(S, n - 1)
         IN  shorter \cup {Append(s, ch) : s \in shorter, ch \in S}

\* every operator and paren, a digit, the dot, the three skipped white-space
\* characters, a carriage return and a letter
LexAlphabet == OpChars \cup ParenChars \cup {"1", ".", " ", "\n", "\t", "\r", "x"}

LexInputs == SeqsUpTo(LexAlphabet, MaxLexLen)

Nil == [k |-> "nil"]

InitLex ==
    /\ input \in LexInputs
    /\ lexer = NewLexer(input)
    /\ out = <<>>
    /\ token = NoToken
    /\ next_token = NoToken
    /\ stack = <<>>
    /\ pc = "lex"
    /\ result = Nil
    /\ error = "none"
    /\ round = 1
    /\ first = <<>>

\* one call of lexer.nextToken() by a caller that keeps what it got
CallNextToken ==
    /\ pc = "lex"
    /\ Len(out) < Len(input) + MaxEnds
    /\ LET r == nextToken(input, lexer)
       IN  /\ lexer' = r.lx
           /\ out' = Append(out, r.tok)
    /\ UNCHANGED <<input, token, next_token, stack, pc, result, error, round, first>>

NextLex == CallNextToken

SpecLex == InitLex /\ [][NextLex]_vars

\* ------------------------------------------------------------ Expression

\* value (parseFloat of the literal) is read by no operation and is left out
NumberExpression(tok) == [k |-> "number", token |-> tok]

PrefixExpression(tok, rhs) == [k |-> "prefix", token |-> tok, op |-> tok.literal, rhs |-> rhs]

InfixExpression(tok, lhs, rhs) ==
    [k |-> "infix", token |-> tok, op |-> tok.literal, lhs |-> lhs, rhs |-> rhs]

RECURSIVE print(_)
print(e) ==
    CASE e.k = "number" -> e.token.literal
      [] e.k = "prefix" -> <<"(">> \o e.op \o print(e.rhs) \o <<")">>
      [] e.k = "infix" ->
            <<"(">> \o print(e.lhs) \o <<" ">> \o e.op \o <<" ">> \o print(e.rhs) \o <<")">>

\* ------------------------------------------------------- TokenPrecedence

TokenPrecedenceGet(type) ==
    CASE type = "MODULO" -> 9
      [] type = "DIVIDE" -> 8
      [] type = "MULTIPLY" -> 7
      [] type \in {"EOF", "LPAREN", "RPAREN"} -> -1
      [] OTHER -> 1

\* ---------------------------------------------------------------- Parser

OperatorTypes == {"PLUS", "MINUS", "MODULO", "DIVIDE", "MULTIPLY"}

\* Parser.next(): the lookahead becomes current, the lexer gives the next one
ParserNext(inp, lx, nt) ==
    LET r == nextToken(inp, lx)
    IN  [thrown |-> r.thrown, token |-> nt, next_token |-> r.tok, lx |-> r.lx]

\* one pending call of parse(p): st is "primary" before its switch and "climb"
\* in its loop, lhs its local; ret says who called it (the driver, parseGroup,
\* or the constructor of a PrefixExpression or an InfixExpression), op and
\* left are that constructor's token and lhs
Frame(ret, op, left, p) ==
    [ret |-> ret, op |-> op, left |-> left, p |-> p, st |-> "primary", lhs |-> Nil]

Top == stack[Len(stack)]

\* the caller's frame once the call on top has returned value to it
Resume(value) ==
    [stack EXCEPT ![Len(stack) - 1].lhs = value, ![Len(stack) - 1].st = "climb"]

\* an exception leaves through every pending call
Throw(msg, lx) ==
    /\ pc' = "error"
    /\ error' = msg
    /\ stack' = <<>>
    /\ lexer' = lx
    /\ UNCHANGED <<input, out, token, next_token, result, round, first>>

\* the loop condition of parse: p < this.nextPrecedence()
ClimbRightAssoc(p, np) == p <= np
Climbs(p, np) == p < np

\* parseGroup: _precedence = this.currentPrecedence(), at the LPAREN; p, the
\* minimum precedence of the calling parse(p), is not read
GroupAmbient(tok, p) == p
GroupPrecedence(tok, p) == TokenPrecedenceGet(tok.type)

\* PrefixExpression: _precedence = parser.currentPrecedence(), at the operator
PrefixLoose(tok) == 0
PrefixPrecedence(tok) == TokenPrecedenceGet(tok.type)

\* PrefixExpression: parser.next() before the operand is parsed
PrefixNoAdvance(inp, lx, tok, nt) == [thrown |-> FALSE, token |-> tok, next_token |-> nt, lx |-> lx]
PrefixAdvance(inp, lx, tok, nt) == ParserNext(inp, lx, nt)

\* new Parser(lexer): two next() load _token and _next_token
ParserConstructor ==
    /\ pc = "new"
    /\ LET n1 == ParserNext(input, lexer, next_token)
           n2 == ParserNext(input, n1.lx, n1.next_token)
       IN  IF n1.thrown THEN Throw("InvalidNumber", n1.lx)
           ELSE IF n2.thrown THEN Throw("InvalidNumber", n2.lx)
           ELSE /\ token' = n2.token
                /\ next_token' = n2.next_token
                /\ lexer' = n2.lx
                /\ pc' = "ready"
                /\ UNCHANGED <<input, out, stack, result, error, round, first>>

\* parser.parse(): p = 0
Parse ==
    /\ pc = "ready"
    /\ pc' = "run"
    /\ stack' = <<Frame("parse", NoToken, Nil, 0)>>
    /\ UNCHANGED <<input, lexer, out, token, next_token, result, error, round, first>>

\* parse, case LPAREN: parseGroup up to its call of parse(_precedence)
ParseGroup ==
    /\ pc = "run"
    /\ Top.st = "primary"
    /\ token.type = "LPAREN"
    /\ LET prec == GroupPrecedence(token, Top.p)
           n == ParserNext(input, lexer, next_token)
       IN  IF n.thrown THEN Throw("InvalidNumber", n.lx)
           ELSE /\ token' = n.token
                /\ next_token' = n.next_token
                /\ lexer' = n.lx
                /\ stack' = Append(stack, Frame("group", NoToken, Nil, prec))
                /\ UNCHANGED <<input, out, pc, result, error, round, first>>

\* parse, case operator: new PrefixExpression up to its call of parse(_precedence)
ParsePrefix ==
    /\ pc = "run"
    /\ Top.st = "primary"
    /\ token.type \in OperatorTypes
    /\ LET prec == PrefixPrecedence(token)
           n == PrefixAdvance(input, lexer, token, next_token)
       IN  IF n.thrown THEN Throw("InvalidNumber", n.lx)
           ELSE /\ token' = n.token
                /\ next_token' = n.next_token
                /\ lexer' = n.lx
                /\ stack' = Append(stack, Frame("prefix", token, Nil, prec))
                /\ UNCHANGED <<input, out, pc, result, error, round, first>>

\* parse, default case: new NumberExpression(this._token)
ParseNumber ==
    /\ pc = "run"
    /\ Top.st = "primary"
    /\ token.type \notin OperatorTypes \cup {"LPAREN"}
    /\ IF token.type # "NUMBER" THEN Throw("ExpectedNumber", lexer)
       ELSE /\ stack' = [stack EXCEPT ![Len(stack)].lhs = NumberExpression(token),
                                      ![Len(stack)].st = "climb"]
            /\ UNCHANGED <<input, lexer, out, token, next_token, pc, result, error, round, first>>

\* one iteration of parse's loop: next(), then new InfixExpression up to its
\* call of parse(_precedence), or the throw on a token that is no operator
ParseInfix ==
    /\ pc = "run"
    /\ Top.st = "climb"
    /\ Climbs(Top.p, TokenPrecedenceGet(next_token.type))
    /\ LET n1 == ParserNext(input, lexer, next_token)
           n2 == ParserNext(input, n1.lx, n1.next_token)
           prec == TokenPrecedenceGet(n1.token.type)
       IN  IF n1.thrown THEN Throw("InvalidNumber", n1.lx)
           ELSE IF n1.token.type \notin OperatorTypes THEN Throw("ExpectedOperator", n1.lx)
           ELSE IF n2.thrown THEN Throw("InvalidNumber", n2.lx)
           ELSE /\ token' = n2.token
                /\ next_token' = n2.next_token
                /\ lexer' = n2.lx
                /\ stack' = Append(stack, Frame("infix", n1.token, Top.lhs, prec))
                /\ UNCHANGED <<input, out, pc, result, error, round, first>>

Returns ==
    /\ pc = "run"
    /\ Top.st = "climb"
    /\ ~Climbs(Top.p, TokenPrecedenceGet(next_token.type))

\* parse returns lhs to the driver
ReturnParse ==
    /\ Returns
    /\ Top.ret = "parse"
    /\ pc' = "done"
    /\ result' = Top.lhs
    /\ stack' = <<>>
    /\ UNCHANGED <<input, lexer, out, token, next_token, error, round, first>>

\* parse returns to parseGroup: expect(RPAREN), then the group is parse's lhs
ReturnGroup ==
    /\ Returns
    /\ Top.ret = "group"
    /\ IF next_token.type # "RPAREN" THEN Throw("ExpectedRParen", lexer)
       ELSE LET n == ParserNext(input, lexer, next_token)
            IN  IF n.thrown THEN Throw("InvalidNumber", n.lx)
                ELSE /\ token' = n.token
                     /\ next_token' = n.next_token
                     /\ lexer' = n.lx
                     /\ stack' = SubSeq(Resume(Top.lhs), 1, Len(stack) - 1)
                     /\ UNCHANGED <<input, out, pc, result, error, round, first>>

\* parse returns the operand of a PrefixExpression, which is parse's lhs
ReturnPrefix ==
    /\ Returns
    /\ Top.ret = "prefix"
    /\ stack' = SubSeq(Resume(PrefixExpression(Top.op, Top.lhs)), 1, Len(stack) - 1)
    /\ UNCHANGED <<input, lexer, out, token, next_token, pc, result, error, round, first>>

\* parse returns the right operand of an InfixExpression, the loop's new lhs
ReturnInfix ==
    /\ Returns
    /\ Top.ret = "infix"
    /\ stack' = SubSeq(Resume(InfixExpression(Top.op, Top.left, Top.lhs)), 1, Len(stack) - 1)
    /\ UNCHANGED <<input, lexer, out, token, next_token, pc, result, error, round, first>>

\* the printed tree is given to a new Lexer and a new Parser
Reparse ==
    /\ pc = "done"
    /\ round = 1
    /\ round' = 2
    /\ first' = print(result)
    /\ input' = print(result)
    /\ lexer' = NewLexer(print(result))
    /\ token' = NoToken
    /\ next_token' = NoToken
    /\ result' = Nil
    /\ pc' = "new"
    /\ UNCHANGED <<out, stack, error>>

\* ---------------------------------------------------------- parser inputs

BinaryOps == OpChars

SignOps == {"+", "-"}

\* a, b, c of the inputs built around numbers
Operands ==
    { <<<<"1">>, <<"2">>, <<"3">>>>,
      <<<<"8">>, <<"4">>, <<"2">>>>,
      <<<<"4", ".", "5">>, <<".", "5">>, <<"7", ".">>>> }

\* a op1 b op2 c
Chain(a, op1, b, op2, c) == a \o <<" ", op1, " ">> \o b \o <<" ", op2, " ">> \o c

\* (a op1 b) op2 c
GroupLeft(a, op1, b, op2, c) ==
    <<"(">> \o a \o <<" ", op1, " ">> \o b \o <<")", " ", op2, " ">> \o c

\* a op1 (b op2 c)
GroupRight(a, op1, b, op2, c) ==
    a \o <<" ", op1, " ", "(">> \o b \o <<" ", op2, " ">> \o c \o <<")">>

\* s n: a sign directly before a literal, at the start and at the end of the input
SignOnly(s, n) == <<s>> \o n

\* s n f m: a sign before a literal that an infix operator follows
SignThen(s, n, f, m) == <<s>> \o n \o <<" ", f, " ">> \o m

\* (s n) f m: the literal is followed by ")"
SignGrouped(s, n, f, m) == <<"(", s>> \o n \o <<")", " ", f, " ">> \o m

\* a o s n: the sign directly after a binary operator, the literal last
AfterOp(a, o, s, n) == a \o <<" ", o, " ", s>> \o n

\* a o s n f m: the sign directly after a binary operator, an operator following
AfterOpThen(a, o, s, n, f, m) == a \o <<" ", o, " ", s>> \o n \o <<" ", f, " ">> \o m

\* the input of the driver: -2 + 4.5 * 7 - -8
DriverInput ==
    <<"-", "2", " ", "+", " ", "4", ".", "5", " ", "*", " ", "7", " ", "-", " ", "-", "8">>

ChainInputs ==
    {Chain(t[1], o1, t[2], o2, t[3]) : t \in Operands, o1 \in BinaryOps, o2 \in BinaryOps}

GroupInputs ==
    {GroupLeft(t[1], o1, t[2], o2, t[3]) : t \in Operands, o1 \in BinaryOps, o2 \in BinaryOps}
    \cup
    {GroupRight(t[1], o1, t[2], o2, t[3]) : t \in Operands, o1 \in BinaryOps, o2 \in BinaryOps}

PrefixInputs ==
    {SignOnly(s, <<"2">>) : s \in SignOps}
    \cup {SignThen(s, <<"2">>, f, <<"3">>) : s \in SignOps, f \in BinaryOps}
    \cup {SignGrouped(s, <<"2">>, f, <<"3">>) : s \in SignOps, f \in BinaryOps}
    \cup {AfterOp(<<"1">>, o, s, <<"2">>) : o \in BinaryOps, s \in SignOps}
    \cup {AfterOpThen(<<"1">>, o, s, <<"2">>, f, <<"3">>) :
            o \in BinaryOps, s \in SignOps, f \in BinaryOps}
    \cup {DriverInput}

\* a digit, a low operator (also a sign), a high operator, the parens and a space
ParseAlphabet == {"1", "+", "*", "(", ")", " "}

ShortInputs == SeqsUpTo(ParseAlphabet, MaxLen)

ParseInputs == ShortInputs \cup ChainInputs \cup GroupInputs \cup PrefixInputs

Init ==
    /\ input \in ParseInputs
    /\ lexer = NewLexer(input)
    /\ out = <<>>
    /\ token = NoToken
    /\ next_token = NoToken
    /\ stack = <<>>
    /\ pc = "new"
    /\ result = Nil
    /\ error = "none"
    /\ round = 1
    /\ first = <<>>

Next ==
    \/ ParserConstructor
    \/ Parse
    \/ ParseGroup
    \/ ParsePrefix
    \/ ParseNumber
    \/ ParseInfix
    \/ ReturnParse
    \/ ReturnGroup
    \/ ReturnPrefix
    \/ ReturnInfix
    \/ Reparse

Spec == Init /\ [][Next]_vars

\* ------------------------------------------------------ claims on the Lexer

EndToken == Token("EOF", <<>>)

LegalChars == OpChars \cup ParenChars \cup Digits \cup {"."} \cup Whitespace

LegalInput(inp) == \A i \in 1..Len(inp) : inp[i] \in LegalChars

\* the index of the last character of the maximal run over {0-9, .} that starts at i
RECURSIVE RunEnd(_, _)
RunEnd(inp, i) ==
    IF i < Len(inp) /\ isNumberComponent(inp[i + 1]) THEN RunEnd(inp, i + 1) ELSE i

\* digits with at most one "." and at least one digit
ValidNumericText(s) ==
    /\ s # <<>>
    /\ \A i \in 1..Len(s) : isNumberComponent(s[i])
    /\ Cardinality({i \in 1..Len(s) : s[i] = "."}) <= 1
    /\ \E i \in 1..Len(s) : s[i] \in Digits

\* the token sequence the specification expects of a legal input, from its
\* character i on: one token per operator or paren, one NUMBER per numeric
\* run, nothing for white space
RECURSIVE ExpectedTokens(_, _)
ExpectedTokens(inp, i) ==
    IF i > Len(inp) THEN <<>>
    ELSE IF inp[i] \in Whitespace THEN ExpectedTokens(inp, i + 1)
    ELSE IF inp[i] \in OpChars \cup ParenChars
         THEN <<Token(OperatorType(inp[i]), <<inp[i]>>)>> \o ExpectedTokens(inp, i + 1)
    ELSE LET e == RunEnd(inp, i)
         IN  <<Token("NUMBER", SubSeq(inp, i, e))>> \o ExpectedTokens(inp, e + 1)

\* every numeric run of the input is a number (section 7 has the others fail)
WellFormedRuns(inp) ==
    LET exp == ExpectedTokens(inp, 1)
    IN  \A i \in 1..Len(exp) : exp[i].type = "NUMBER" => ValidNumericText(exp[i].literal)

\* C1: on an input of operators, parens, well-formed numeric runs and white
\* space anywhere (also after the last token), the tokens nextToken() returns
\* are the expected ones in order, followed by END tokens only.
C1_Tokenization ==
    (pc = "lex" /\ LegalInput(input) /\ WellFormedRuns(input)) =>
        LET exp == ExpectedTokens(input, 1)
        IN  \A i \in 1..Len(out) :
                out[i] = (IF i <= Len(exp) THEN exp[i] ELSE EndToken)

\* an END token has been returned
EndSeen == \E i \in 1..Len(out) : out[i].type = "EOF"

\* nothing but white space is left from the cursor on
RemainingBlank == \A i \in (lexer.pos + 1)..Len(input) : input[i] \in Whitespace

\* C8: once a call has returned END, or once the rest of the input holds no
\* operator, paren or numeric run, every call of nextToken() returns an END
\* token with an empty literal.
C8_EndIdempotent ==
    [][(pc = "lex" /\ (EndSeen \/ RemainingBlank)) => out'[Len(out')] = EndToken]_vars

\* C9: every NUMBER token the lexer returns has a non-empty literal made of
\* digits with at most one ".".
C9_NumberLiteralValid ==
    pc = "lex" => \A i \in 1..Len(out) :
        out[i].type = "NUMBER" => ValidNumericText(out[i].literal)

\* ----------------------------------------------------- claims on the Parser

Num(lit) == NumberExpression(Token("NUMBER", lit))

Pre(op, rhs) == PrefixExpression(Token(OperatorType(op), <<op>>), rhs)

Bin(op, lhs, rhs) == InfixExpression(Token(OperatorType(op), <<op>>), lhs, rhs)

\* the precedence table of section 4.2
PrecedenceOf(op) ==
    CASE op = "%" -> 9
      [] op = "/" -> 8
      [] op = "*" -> 7
      [] op \in {"+", "-"} -> 1

\* the first parse of the input has returned its tree
Parsed == round = 1 /\ pc = "done"

\* the first parse of the input has returned or thrown
Ended == round = 1 /\ pc \in {"done", "error"}

\* C2: a op1 b op2 c parses to (a op1 (b op2 c)) when op2's precedence is
\* strictly greater than op1's and to ((a op1 b) op2 c) otherwise.
C2_Precedence ==
    \A t \in Operands, o1 \in BinaryOps, o2 \in BinaryOps :
        (Ended /\ input = Chain(t[1], o1, t[2], o2, t[3])) =>
            /\ pc = "done"
            /\ result = IF PrecedenceOf(o2) > PrecedenceOf(o1)
                        THEN Bin(o1, Num(t[1]), Bin(o2, Num(t[2]), Num(t[3])))
                        ELSE Bin(o2, Bin(o1, Num(t[1]), Num(t[2])), Num(t[3]))

\* 8 / 4 / 2 has been parsed and prints as ((8 / 4) / 2)
C2_Witness ==
    /\ Parsed
    /\ input = Chain(<<"8">>, "/", <<"4">>, "/", <<"2">>)
    /\ print(result) = <<"(", "(", "8", " ", "/", " ", "4", ")", " ", "/", " ", "2", ")">>

\* C3: (a op1 b) op2 c parses to ((a op1 b) op2 c) and a op1 (b op2 c) to
\* (a op1 (b op2 c)) for all operators, and what is parsed inside a group
\* is parsed at the minimum precedence -1 whatever the enclosing call's is.
C3_Grouping ==
    /\ \A t \in Operands, o1 \in BinaryOps, o2 \in BinaryOps :
        /\ (Ended /\ input = GroupLeft(t[1], o1, t[2], o2, t[3])) =>
              /\ pc = "done"
              /\ result = Bin(o2, Bin(o1, Num(t[1]), Num(t[2])), Num(t[3]))
        /\ (Ended /\ input = GroupRight(t[1], o1, t[2], o2, t[3])) =>
              /\ pc = "done"
              /\ result = Bin(o1, Num(t[1]), Bin(o2, Num(t[2]), Num(t[3])))
    /\ \A i \in 1..Len(stack) : stack[i].ret = "group" => stack[i].p = -1

\* 1 * (2 + 3) has been parsed and prints as (1 * (2 + 3))
C3_Witness ==
    /\ Parsed
    /\ input = GroupRight(<<"1">>, "*", <<"2">>, "+", <<"3">>)
    /\ print(result) = <<"(", "1", " ", "*", " ", "(", "2", " ", "+", " ", "3", ")", ")">>

\* what the driver's input prints as: (((-2) + (4.5 * 7)) - (-8))
DriverPrinted ==
    <<"(", "(", "(", "-", "2", ")", " ", "+", " ", "(", "4", ".", "5", " ", "*", " ", "7",
      ")", ")", " ", "-", " ", "(", "-", "8", ")", ")">>

\* C4: a prefix + or - directly before a literal takes the literal alone when
\* the literal is followed by a binary + or -, by ")" or by the end of the
\* input, at the start of the input and directly after a binary operator; a
\* following infix operator of strictly greater precedence extends the
\* operand; and -2 + 4.5 * 7 - -8 prints as (((-2) + (4.5 * 7)) - (-8)).
C4_UnaryPrefix ==
    LET a == <<"1">>
        n == <<"2">>
        m == <<"3">>
    IN  /\ \A s \in SignOps :
            (Ended /\ input = SignOnly(s, n)) => (pc = "done" /\ result = Pre(s, Num(n)))
        /\ \A s \in SignOps, f \in BinaryOps :
            /\ (Ended /\ input = SignThen(s, n, f, m)) =>
                  /\ pc = "done"
                  /\ result = IF PrecedenceOf(f) > PrecedenceOf(s)
                              THEN Pre(s, Bin(f, Num(n), Num(m)))
                              ELSE Bin(f, Pre(s, Num(n)), Num(m))
            /\ (Ended /\ input = SignGrouped(s, n, f, m)) =>
                  (pc = "done" /\ result = Bin(f, Pre(s, Num(n)), Num(m)))
        /\ \A o \in BinaryOps, s \in SignOps :
            (Ended /\ input = AfterOp(a, o, s, n)) =>
                (pc = "done" /\ result = Bin(o, Num(a), Pre(s, Num(n))))
        /\ \A o \in BinaryOps, s \in SignOps, f \in BinaryOps :
            (Ended /\ input = AfterOpThen(a, o, s, n, f, m)) =>
                /\ pc = "done"
                /\ result = IF PrecedenceOf(f) > PrecedenceOf(s)
                            THEN Bin(o, Num(a), Pre(s, Bin(f, Num(n), Num(m))))
                            ELSE Bin(f, Bin(o, Num(a), Pre(s, Num(n))), Num(m))
        /\ (Ended /\ input = DriverInput) => (pc = "done" /\ print(result) = DriverPrinted)

\* the driver's input has been parsed: both signs hold their literal alone
C4_Witness ==
    /\ Parsed
    /\ input = DriverInput
    /\ result.lhs.lhs = Pre("-", Num(<<"2">>))
    /\ result.rhs = Pre("-", Num(<<"8">>))

\* C5: the printed tree of every successful parse parses again, to a tree
\* that prints the same.
C5_RoundTrip ==
    round = 2 => /\ pc # "error"
                 /\ pc = "done" => print(result) = first

\* the tokens of the input as section 4.1 defines them
InputTokens == ExpectedTokens(input, 1)

CountType(toks, type, lo, hi) == Cardinality({j \in lo..hi : toks[j].type = type})

\* a ")" with no "(" open before it
UnopenedRParen(toks) ==
    \E i \in 1..Len(toks) :
        /\ toks[i].type = "RPAREN"
        /\ CountType(toks, "LPAREN", 1, i - 1) <= CountType(toks, "RPAREN", 1, i - 1)

AdjacentNumbers(toks) ==
    \E i \in 1..(Len(toks) - 1) : toks[i].type = "NUMBER" /\ toks[i + 1].type = "NUMBER"

OperatorAtEnd(toks) == toks # <<>> /\ toks[Len(toks)].type \in OperatorTypes

\* C6: parse() returns no tree when the input holds a ")" with no "(" open
\* (first or after a complete expression, as in 1 )), two numbers in a row,
\* or an operator directly before the end of the input.
C6_UnexpectedToken ==
    Parsed => /\ ~UnopenedRParen(InputTokens)
              /\ ~AdjacentNumbers(InputTokens)
              /\ ~OperatorAtEnd(InputTokens)

\* a "(" that no later ")" matches
UnclosedLParen(toks) ==
    \E i \in 1..Len(toks) :
        /\ toks[i].type = "LPAREN"
        /\ ~\E j \in (i + 1)..Len(toks) :
              /\ toks[j].type = "RPAREN"
              /\ CountType(toks, "LPAREN", i + 1, j - 1) = CountType(toks, "RPAREN", i + 1, j - 1)

\* C7: parse() returns no tree when the input holds a "(" that no ")" matches.
C7_UnmatchedParen == Parsed => ~UnclosedLParen(InputTokens)

Running == pc \in {"new", "ready", "run"}

\* the pending calls of parse that have not built their first operand yet
Primaries == Cardinality({i \in 1..Len(stack) : stack[i].st = "primary"})

\* what is left to do: characters (and the three reads past them) the lexer
\* has not passed, weighted above the calls they can open; pending calls;
\* operands not yet built; the construction of the parser
Measure ==
    3 * (Len(input) + 3 - lexer.next_pos) + Len(stack) + Primaries
        + (IF pc \in {"new", "ready"} THEN 3 ELSE 0)

\* the running parser is at a statement of parse
AtStatement ==
    \/ pc \in {"new", "ready"}
    \/ /\ pc = "run"
       /\ stack # <<>>
       /\ Top.st \in {"primary", "climb"}
       /\ stack[1].ret = "parse"
       /\ \A i \in 2..Len(stack) : stack[i].ret \in {"group", "prefix", "infix"}

\* C10: every parse ends, with a tree or an error: each step of a running
\* parse lowers a measure that is never negative; every call of parse made
\* from a group, a prefix or an infix expression comes after an advance of
\* the token cursor; and the loop of parse is left when the lookahead is
\* END, LPAREN or RPAREN.
C10_Terminates ==
    /\ [](Running => (Measure >= 0 /\ AtStatement))
    /\ [][Running => Measure' < Measure]_vars
    /\ [][Len(stack') > Len(stack) /\ stack # <<>> => lexer'.next_pos > lexer.next_pos]_vars
    /\ [][(pc = "run" /\ Top.st = "climb"
            /\ next_token.type \in {"EOF", "LPAREN", "RPAREN"}) => Len(stack') < Len(stack)]_vars

\* (-2) * 3, whose parse opens a group, a prefix and an infix call, has
\* ended with its tree and the lexer past the end of the input
C10_Witness ==
    /\ Parsed
    /\ input = SignGrouped("-", <<"2">>, "*", <<"3">>)
    /\ result = Bin("*", Pre("-", Num(<<"2">>)), Num(<<"3">>))
    /\ lexer.next_pos > Len(input)

====
